---- MODULE Spec2Model ----
(***************************************************************************)
(* A model of src/main.py: the PayTraq catalog paginator and the three     *)
(* Google-Sheets endpoints (export-all, sync-today, sync-updated).         *)
(*                                                                         *)
(* Representation.                                                         *)
(*  - A Python string is a sequence of tokens; a token is either the       *)
(*    whitespace token WS or a non-blank chunk.  "" is <<>>, " C1 " is     *)
(*    <<WS, "C1", WS>>.  str.strip() removes leading and trailing WS.      *)
(*  - A value that may be None is a set with at most one element           *)
(*    (None == {}, Some(x) == {x}); "x or d" is OrElse(x, d).              *)
(*  - The 33 PRODUCT_COLUMNS are projected onto five of them; every        *)
(*    column is normalized by the same expression in the source.           *)
(*  - Diagnostic strings are kept as tagged records, not as text.          *)
(*  - A worksheet is a sequence of rows, a row a sequence of cells; cells  *)
(*    beyond a row's length, and rows beyond the last, are blank.  The     *)
(*    worksheet stores what is written to it.                              *)
(*                                                                         *)
(* Specifications.  SpecFetch: the paginator alone, over every upstream.   *)
(* Spec: the three endpoints, one request at a time.  SpecRace: two        *)
(* sync-today requests interleaved on one worksheet.                       *)
(***************************************************************************)
EXTENDS Integers, Sequences, FiniteSets, TLC

VARIABLES
    env,          \* process configuration read from the environment
    catalog,      \* upstream: the response PayTraq gives for page k
    today,        \* the civil date in Europe/Riga at request time
    wsExists,     \* the target worksheet exists in the spreadsheet
    sheet,        \* the target worksheet's cells
    runs,         \* requests served so far
    pc,           \* position of the request being served
    endpoint,     \* route of the request being served
    args,         \* query parameters of the request
    page,         \* fetch_all_products: page
    collected,    \* fetch_all_products: collected
    debug,        \* fetch_all_products: debug
    requests,     \* history: page numbers requested from PayTraq, in order
    items_all,    \* value returned by fetch_all_products (None on failure)
    loc,          \* the handler's local variables
    calls,        \* history: spreadsheet API calls issued by this request
    sheet0,       \* history: the worksheet as it was when the request began
    response,     \* the HTTP response of the request, once sent
    lastRun,      \* history: endpoint and response of the previous request
    peer          \* a second request served concurrently: its position and locals

vars == <<env, catalog, today, wsExists, sheet, runs, pc, endpoint, args, page,
          collected, debug, requests, items_all, loc, calls, sheet0, response,
          lastRun, peer>>

-----------------------------------------------------------------------------
(* Bounds *)

MaxPages == 3      \* stands for max_pages (500 in every caller)
MaxRuns == 2       \* requests served in one behaviour

-----------------------------------------------------------------------------
(* Strings, None, sequences *)

WS == " "
S(t) == <<t>>
Blank == <<>>

RECURSIVE LStrip(_)
LStrip(s) == IF s # <<>> /\ Head(s) = WS THEN LStrip(Tail(s)) ELSE s

RECURSIVE RStrip(_)
RStrip(s) == IF s # <<>> /\ s[Len(s)] = WS THEN RStrip(SubSeq(s, 1, Len(s) - 1)) ELSE s

Strip(s) == RStrip(LStrip(s))

None == {}
Some(x) == {x}
OrElse(o, d) == IF o = {} THEN d ELSE CHOOSE x \in o : TRUE

\* d.get(k) on "x or {}": None when the enclosing mapping is absent
Get(o, k) == IF o = {} THEN None ELSE (CHOOSE x \in o : TRUE)[k]

Range(s) == {s[i] : i \in DOMAIN s}

RECURSIVE Concat(_)
Concat(ss) == IF ss = <<>> THEN <<>> ELSE Head(ss) \o Concat(Tail(ss))

-----------------------------------------------------------------------------
(* Schema and normalization *)

PRODUCT_COLUMNS ==
    <<S("ItemID"), S("Code"), S("Qty"), S("CreatedUTC"), S("UpdatedUTC")>>

normalize_product_full_for_sheet(p) ==
    LET inv == p.Inventory
        ts == p.TimeStamps
    IN  (S("ItemID") :> Strip(OrElse(p.ItemID, Blank)))
        @@ (S("Code") :> Strip(OrElse(p.Code, Blank)))
        @@ (S("Qty") :> Strip(OrElse(Get(inv, "Qty"), Blank)))
        @@ (S("CreatedUTC") :> Strip(OrElse(Get(ts, "Created"), Blank)))
        @@ (S("UpdatedUTC") :> Strip(OrElse(Get(ts, "Updated"), Blank)))

\* a raw <Product> as xmltodict delivers it
Raw(id, code, qty, created, updated) ==
    [ItemID |-> id, Code |-> code,
     Inventory |-> Some([Qty |-> qty]),
     TimeStamps |-> Some([Created |-> created, Updated |-> updated])]

-----------------------------------------------------------------------------
(* Time window *)

\* the instants used by the model, in the lexicographic order of their text
IsoInstants ==
    <<"2025-06-09T20:59:59Z", "2025-06-09T21:00:00Z", "2025-06-10T12:00:00Z",
      "2025-06-10T21:00:00Z", "2025-06-10T21:00:01Z", "2025-06-11T21:00:00Z">>

IsoRank(t) == CHOOSE i \in DOMAIN IsoInstants : IsoInstants[i] = t

\* Python's <= on two one-token strings that are instants of IsoInstants
StrLE(a, b) == IsoRank(a[1]) <= IsoRank(b[1])

Days == {"2025-06-10"}

riga_today_start_end_utc(now_riga) ==
    CASE now_riga = "2025-06-10" ->
            <<S("2025-06-09T21:00:00Z"), S("2025-06-10T21:00:00Z")>>
      [] now_riga = "2025-06-11" ->
            <<S("2025-06-10T21:00:00Z"), S("2025-06-11T21:00:00Z")>>

T_before == S("2025-06-09T20:59:59Z")
T_start == S("2025-06-09T21:00:00Z")
T_end == S("2025-06-10T21:00:00Z")
T_inside == S("2025-06-10T12:00:00Z")

-----------------------------------------------------------------------------
(* PayTraq client and XML parsing *)

\* upstream outcomes of one GET /products?page=k
UpExc == [exc |-> TRUE, status |-> 0, text |-> [wf |-> FALSE]]
Up(status, text) == [exc |-> FALSE, status |-> status, text |-> text]

\* response texts, by what xmltodict.parse makes of them
XmlMalformed == [wf |-> FALSE]
XmlRoot(root, node) == [wf |-> TRUE, root |-> root, node |-> node]
NodeNone == [t |-> "none"]
NodeText == [t |-> "text"]
NodeDict(product) == [t |-> "dict", Product |-> product]
ProductAbsent == [k |-> "absent"]
ProductOne(p) == [k |-> "one", v |-> p]
ProductList(ps) == [k |-> "list", v |-> ps]

XmlEmpty == XmlRoot("Products", NodeNone)
XmlOne(p) == XmlRoot("Products", NodeDict(ProductOne(p)))
XmlList(ps) == XmlRoot("Products", NodeDict(ProductList(ps)))
XmlNoChild == XmlRoot("Products", NodeDict(ProductAbsent))
XmlText == XmlRoot("Products", NodeText)
XmlError == XmlRoot("Error", NodeDict(ProductAbsent))
XmlHtml == XmlRoot("html", NodeDict(ProductAbsent))

paytraq_get(up) ==
    IF up.exc THEN [status |-> 599, text |-> XmlMalformed]
    ELSE [status |-> up.status, text |-> up.text]

parse_products_xml(xml_text) ==
    IF ~xml_text.wf
    THEN [out |-> "ValueError", msg |-> "XML_PARSE_ERROR", items |-> <<>>]
    ELSE IF xml_text.root = "Products" /\ xml_text.node.t = "none"
    THEN [out |-> "ok", msg |-> "", items |-> <<>>]
    ELSE IF xml_text.root # "Products"
    THEN [out |-> "ValueError", msg |-> "NO_PRODUCTS_NODE", items |-> <<>>]
    ELSE IF xml_text.node.t = "text"
    THEN [out |-> "AttributeError", msg |-> "", items |-> <<>>]
    ELSE LET items == xml_text.node.Product
         IN  [out |-> "ok", msg |-> "",
              items |-> CASE items.k = "absent" -> <<>>
                          [] items.k = "one" -> <<items.v>>
                          [] items.k = "list" -> items.v]

-----------------------------------------------------------------------------
(* fetch_all_products *)

DebugPage(p, status) == [tag |-> "page", page |-> p, status |-> status, msg |-> ""]
DebugUnauthorized == [tag |-> "Unauthorized", page |-> 0, status |-> 401, msg |-> ""]
DebugHttp(status) == [tag |-> "HTTP", page |-> 0, status |-> status, msg |-> ""]
DebugParseFail(msg) == [tag |-> "PARSE_FAIL", page |-> 0, status |-> 0, msg |-> msg]

\* variant of StatusClass: the generic >= 400 test placed before the 401 test
StatusClass_GenericFirst(status) ==
    IF status >= 400 THEN "http_error"
    ELSE IF status = 401 THEN "unauthorized"
    ELSE "ok"

StatusClass(status) ==
    IF status = 401 THEN "unauthorized"
    ELSE IF status >= 400 THEN "http_error"
    ELSE "ok"

\* variant of NotItems: a page shorter than two records ends the catalog
NotItems_ShortPage(items) == Len(items) < 2

NotItems(items) == items = <<>>

\* variant of WhileCond: the ceiling overshot by one page
WhileCond_OffByOne(p) == p <= MaxPages + 1

WhileCond(p) == p <= MaxPages

Response(cat, p) == IF p <= Len(cat) THEN cat[p] ELSE Up(200, XmlEmpty)

\* one pass through the loop body for state st = [page, collected, debug]
FetchStep(st, up) ==
    LET r == paytraq_get(up)
        dbg == Append(st.debug, DebugPage(st.page, r.status))
        cls == StatusClass(r.status)
        parsed == parse_products_xml(r.text)
        stay(ctl, items, d) ==
            [ctl |-> ctl, items |-> items, debug |-> d,
             page |-> st.page, collected |-> st.collected]
    IN  IF cls = "unauthorized"
        THEN stay("return", None, Append(dbg, DebugUnauthorized))
        ELSE IF cls = "http_error"
        THEN stay("return", None, Append(dbg, DebugHttp(r.status)))
        ELSE IF parsed.out = "AttributeError"
        THEN stay("raise", None, dbg)
        ELSE IF parsed.out = "ValueError"
        THEN stay("return", None, Append(dbg, DebugParseFail(parsed.msg)))
        ELSE IF NotItems(parsed.items)
        THEN stay("return", Some(st.collected), dbg)
        ELSE [ctl |-> "loop", items |-> None, debug |-> dbg,
              page |-> st.page + 1,
              collected |-> st.collected \o parsed.items]

\* the loop body followed by the loop test
FetchIteration(st, up) ==
    LET out == FetchStep(st, up)
    IN  IF out.ctl = "loop" /\ ~WhileCond(out.page)
        THEN [out EXCEPT !.ctl = "return", !.items = Some(out.collected)]
        ELSE out

FetchPage ==
    /\ pc = "fetch"
    /\ LET out == FetchIteration([page |-> page, collected |-> collected,
                                  debug |-> debug], Response(catalog, page))
       IN  /\ requests' = Append(requests, page)
           /\ page' = out.page
           /\ collected' = out.collected
           /\ debug' = out.debug
           /\ items_all' = out.items
           /\ pc' = CASE out.ctl = "loop" -> "fetch"
                      [] out.ctl = "return" -> "fetched"
                      [] out.ctl = "raise" -> "raised"
    /\ UNCHANGED <<peer, env, catalog, today, wsExists, sheet, runs, endpoint, args,
                   loc, calls, sheet0, response, lastRun>>

\* the whole call, as a function of the upstream
RECURSIVE FetchRun(_, _)
FetchRun(cat, st) ==
    LET out == FetchIteration(st, Response(cat, st.page))
    IN  IF out.ctl = "loop"
        THEN FetchRun(cat, [page |-> out.page, collected |-> out.collected,
                            debug |-> out.debug])
        ELSE out

FetchStart == [page |-> 1, collected |-> <<>>, debug |-> <<>>]

fetch_all_products(cat) == FetchRun(cat, FetchStart)

-----------------------------------------------------------------------------
(* The paginator on its own: every upstream over a small response alphabet *)

ItemA == Raw(Some(S("1")), Some(<<WS, "C1", WS>>), Some(S("7")), Some(T_inside), Some(T_inside))
ItemB == Raw(Some(S("2")), Some(S("C2")), Some(S("3")), Some(T_inside), Some(T_inside))

FetchItems == {ItemA, ItemB}

FetchResponses ==
    {UpExc, Up(401, XmlHtml), Up(500, XmlHtml)}
    \cup {Up(200, x) : x \in {XmlMalformed, XmlEmpty, XmlNoChild, XmlText,
                              XmlError, XmlHtml}}
    \cup {Up(200, XmlOne(p)) : p \in FetchItems}
    \cup {Up(200, XmlList(<<p, q>>)) : p, q \in FetchItems}

FetchCatalogs == [1..MaxPages -> FetchResponses]

NoResponse == [status |-> 0, json |-> TRUE, error |-> "", counts |-> <<>>]
Json(status, error, counts) ==
    [status |-> status, json |-> TRUE, error |-> error, counts |-> counts]
\* an exception that leaves the view function: the framework's own 500 page
Unhandled500 ==
    [status |-> 500, json |-> FALSE, error |-> "Internal Server Error", counts |-> <<>>]

\* the handler's locals before it has assigned any
NoLoc ==
    [prods |-> <<>>, headers |-> <<>>, existing_codes |-> {}, to_append |-> <<>>,
     start_row |-> 0, code_to_row |-> <<>>, i |-> 1, updated_rows |-> 0,
     skipped_not_found |-> 0]

\* no second request
NoPeer ==
    [pc |-> "none", prods |-> <<>>, headers |-> <<>>, existing_codes |-> {},
     to_append |-> <<>>, start_row |-> 0, response |-> NoResponse,
     mainPcAtRead |-> "none", mainPcAtDone |-> "none"]

InitFetch ==
    /\ env = [paytraq |-> TRUE, google_sa |-> TRUE]
    /\ catalog \in FetchCatalogs
    /\ today \in Days
    /\ wsExists = TRUE
    /\ sheet = <<>>
    /\ runs = 1
    /\ pc = "fetch"
    /\ endpoint = "export"
    /\ args = [spreadsheet_id |-> TRUE, create |-> FALSE]
    /\ page = 1
    /\ collected = <<>>
    /\ debug = <<>>
    /\ requests = <<>>
    /\ items_all = None
    /\ loc = NoLoc
    /\ calls = <<>>
    /\ sheet0 = <<>>
    /\ response = NoResponse
    /\ lastRun = [endpoint |-> "none", response |-> NoResponse]
    /\ peer = NoPeer

NextFetch == FetchPage

SpecFetch == InitFetch /\ [][NextFetch]_vars /\ WF_vars(NextFetch)

-----------------------------------------------------------------------------
(* The worksheet and the gspread calls made on it *)

Max(a, b) == IF a >= b THEN a ELSE b

RECURSIVE TrimTail(_)
\* drop the trailing blank cells of a row, or the trailing empty rows of a sheet
TrimTail(s) ==
    IF s # <<>> /\ s[Len(s)] = <<>> THEN TrimTail(SubSeq(s, 1, Len(s) - 1)) ELSE s

Cell(sh, r, c) == IF r <= Len(sh) /\ c <= Len(sh[r]) THEN sh[r][c] ELSE Blank

\* ws.row_values(r): the row up to its last non-blank cell
row_values(sh, r) == IF r <= Len(sh) THEN TrimTail(sh[r]) ELSE <<>>

\* ws.col_values(c): the column up to its last non-blank cell
col_values(sh, c) == TrimTail([r \in 1..Len(sh) |-> Cell(sh, r, c)])

\* the cells 1..Len(new) of a row replaced, the cells after them kept
SetRow(old, new) ==
    TrimTail([c \in 1..Max(Len(old), Len(new)) |->
                 IF c <= Len(new) THEN new[c] ELSE old[c]])

\* ws.update("A{r1}:...", rows): rows r1, r1+1, ... written from column A
ws_update(sh, r1, rows) ==
    TrimTail([r \in 1..Max(Len(sh), r1 + Len(rows) - 1) |->
                 IF r >= r1 /\ r < r1 + Len(rows)
                 THEN SetRow(row_values(sh, r), rows[r - r1 + 1])
                 ELSE row_values(sh, r)])

\* variant of ws_clear: the values are left in place
ws_clear_Noop(sh) == sh

ws_clear(sh) == <<>>

first_empty_row(sh) ==
    LET vals == col_values(sh, 1)
    IN  IF vals # <<>> THEN Len(vals) + 1 ELSE 1

RECURSIVE AppendMissing_NoCheck(_, _)
\* variant of AppendMissing: every schema column appended, present or not
AppendMissing_NoCheck(headers, cols) ==
    IF cols = <<>> THEN headers
    ELSE AppendMissing_NoCheck(Append(headers, Head(cols)), Tail(cols))

RECURSIVE AppendMissing(_, _)
\* for col in cols: if col not in headers: headers.append(col)
AppendMissing(headers, cols) ==
    IF cols = <<>> THEN headers
    ELSE AppendMissing(IF Head(cols) \in Range(headers) THEN headers
                       ELSE Append(headers, Head(cols)),
                       Tail(cols))

\* ensure_header: the headers it returns and the worksheet it leaves
ensure_header(sh) ==
    LET headers == row_values(sh, 1)
        full == AppendMissing(headers, PRODUCT_COLUMNS)
    IN  IF headers = <<>>
        THEN [headers |-> PRODUCT_COLUMNS, wrote |-> TRUE,
              sheet |-> ws_update(sh, 1, <<PRODUCT_COLUMNS>>)]
        ELSE IF full # headers
        THEN [headers |-> full, wrote |-> TRUE, sheet |-> ws_update(sh, 1, <<full>>)]
        ELSE [headers |-> headers, wrote |-> FALSE, sheet |-> sh]

\* {h: i for i, h in enumerate(headers)}: 0-based, the last duplicate wins
HeaderIndex(headers) ==
    [h \in Range(headers) |->
        (CHOOSE i \in DOMAIN headers :
            headers[i] = h /\ \A j \in DOMAIN headers : headers[j] = h => j <= i) - 1]

CodeIdx(headers) == HeaderIndex(headers)[S("Code")] + 1

read_existing_codes(sh, code_idx) ==
    LET col_vals == col_values(sh, code_idx)
    IN  {Strip(col_vals[i]) :
            i \in {j \in 2..Len(col_vals) :
                      col_vals[j] # Blank /\ Strip(col_vals[j]) # Blank}}

\* variant of read_code_to_row_map: the last row holding a code wins
read_code_to_row_map_Last(sh, code_idx) ==
    LET col_vals == col_values(sh, code_idx)
        rowsOf(code) == {i \in 2..Len(col_vals) : Strip(col_vals[i]) = code}
        codes == {Strip(col_vals[i]) : i \in 2..Len(col_vals)} \ {Blank}
    IN  [code \in codes |->
            CHOOSE i \in rowsOf(code) : \A j \in rowsOf(code) : i >= j]

\* Code -> first row (1-based, from row 2) holding it
read_code_to_row_map(sh, code_idx) ==
    LET col_vals == col_values(sh, code_idx)
        rowsOf(code) == {i \in 2..Len(col_vals) : Strip(col_vals[i]) = code}
        codes == {Strip(col_vals[i]) : i \in 2..Len(col_vals)} \ {Blank}
    IN  [code \in codes |->
            CHOOSE i \in rowsOf(code) : \A j \in rowsOf(code) : i <= j]

\* for h, idx in header_index.items(): if h in prod: row[idx] = prod[h]
Overlay(row, headers, prod) ==
    LET header_index == HeaderIndex(headers)
    IN  [c \in 1..Len(row) |->
            IF c <= Len(headers) /\ headers[c] \in DOMAIN prod
               /\ header_index[headers[c]] = c - 1
            THEN prod[headers[c]]
            ELSE row[c]]

BlankRow(headers) == [c \in 1..Len(headers) |-> Blank]

\* row_vals += [""] * (len(headers) - len(row_vals))
PadRow(row_vals, headers) ==
    [c \in 1..Max(Len(row_vals), Len(headers)) |->
        IF c <= Len(row_vals) THEN row_vals[c] ELSE Blank]

Map(s, f(_)) == [i \in DOMAIN s |-> f(s[i])]

\* start_iso <= t <= end_iso, for a non-empty stripped timestamp t
InWindow(t, window) == t # Blank /\ StrLE(window[1], t) /\ StrLE(t, window[2])

CreatedOf(p) == Strip(OrElse(Get(p.TimeStamps, "Created"), Blank))
UpdatedOf(p) == Strip(OrElse(Get(p.TimeStamps, "Updated"), Blank))

TodayProducts(items, window) ==
    LET created_today(p) == InWindow(CreatedOf(p), window)
    IN  Map(SelectSeq(items, created_today), normalize_product_full_for_sheet)

UpdatedProductsRaw(items, window) ==
    LET updated_today(p) == InWindow(UpdatedOf(p), window)
    IN  SelectSeq(items, updated_today)

\* variant of IsNewCode: the codes read from the sheet are not consulted
IsNewCode_IgnoreSheet(code, existing_codes) == code # Blank

\* create-sync: a today's product is appended when its code is non-empty and
\* not among the codes read from the sheet
IsNewCode(code, existing_codes) == code # Blank /\ code \notin existing_codes

ToAppend(today_products, existing_codes) ==
    LET is_new(prod) == IsNewCode(prod[S("Code")], existing_codes)
    IN  SelectSeq(today_products, is_new)

-----------------------------------------------------------------------------
(* The request handlers *)

\* one spreadsheet API call: on which worksheet (every call of the source is on
\* the one named by the request), what was called, on which row, with which
\* rows, built from which normalized records, and whether it succeeded
Call(op, row, vals, recs, ok) ==
    [ws |-> "worksheet", op |-> op, row |-> row, vals |-> vals, recs |-> recs,
     ok |-> ok]

SheetsAccessError == Json(500, "Sheets access error", <<>>)

Start(ep, a) ==
    /\ pc \in {"idle", "done"}
    /\ runs < MaxRuns
    /\ runs' = runs + 1
    /\ endpoint' = ep
    /\ args' = a
    /\ lastRun' = IF pc = "done"
                  THEN [endpoint |-> endpoint, response |-> response]
                  ELSE lastRun
    /\ page' = 1
    /\ collected' = <<>>
    /\ debug' = <<>>
    /\ requests' = <<>>
    /\ items_all' = None
    /\ loc' = NoLoc
    /\ calls' = <<>>
    /\ sheet0' = sheet
    /\ IF ~env.paytraq
       THEN /\ response' = Json(400, "Missing PAYTRAQ_API_KEY or PAYTRAQ_API_TOKEN", <<>>)
            /\ pc' = "done"
       ELSE IF ~a.spreadsheet_id
       THEN /\ response' = Json(400, "Missing spreadsheet_id query param", <<>>)
            /\ pc' = "done"
       ELSE /\ response' = NoResponse
            /\ pc' = "fetch"
    /\ UNCHANGED <<peer, env, catalog, today, wsExists, sheet>>

\* variant of FetchFailed: the result of the fetch is never tested
FetchFailed_NotTested(items) == FALSE

\* if items_all is None
FetchFailed(items) == items = None

\* if items_all is None: 502
RespondFetchFailed ==
    /\ pc = "fetched"
    /\ FetchFailed(items_all)
    /\ response' = Json(502, "Fetch failed", <<>>)
    /\ pc' = "done"
    /\ UNCHANGED <<peer, env, catalog, today, wsExists, sheet, runs, endpoint, args, page,
                   collected, debug, requests, items_all, loc, calls, sheet0, lastRun>>

\* an exception other than ValueError left fetch_all_products and the view
RespondUnhandled ==
    /\ pc = "raised"
    /\ response' = Unhandled500
    /\ pc' = "done"
    /\ UNCHANGED <<peer, env, catalog, today, wsExists, sheet, runs, endpoint, args, page,
                   collected, debug, requests, items_all, loc, calls, sheet0, lastRun>>

Fetched == OrElse(items_all, <<>>)

\* ---- /export-all-products-to-sheet

ExportRows(products) ==
    <<PRODUCT_COLUMNS>>
    \o [i \in DOMAIN products |->
          [c \in DOMAIN PRODUCT_COLUMNS |-> products[i][PRODUCT_COLUMNS[c]]]]

ExportOpen ==
    /\ pc = "fetched" /\ endpoint = "export" /\ ~FetchFailed(items_all)
    /\ loc' = [loc EXCEPT !.prods = Map(Fetched, normalize_product_full_for_sheet)]
    /\ \E ok \in BOOLEAN :
        IF ~env.google_sa
        THEN /\ response' = SheetsAccessError /\ pc' = "done"
             /\ UNCHANGED <<wsExists, sheet, calls>>
        ELSE IF ~ok
        THEN /\ response' = SheetsAccessError /\ pc' = "done"
             /\ calls' = Append(calls, Call("open", 0, <<>>, <<>>, FALSE))
             /\ UNCHANGED <<wsExists, sheet>>
        ELSE IF wsExists
        THEN /\ pc' = "export_clear"
             /\ calls' = Append(calls, Call("open", 0, <<>>, <<>>, TRUE))
             /\ UNCHANGED <<wsExists, sheet, response>>
        ELSE IF args.create
        THEN /\ pc' = "export_clear"
             /\ wsExists' = TRUE
             /\ sheet' = <<>>
             /\ calls' = calls \o <<Call("open", 0, <<>>, <<>>, TRUE),
                                    Call("add_worksheet", 0, <<>>, <<>>, TRUE)>>
             /\ UNCHANGED response
        ELSE /\ response' = Json(400, "Worksheet not found", <<>>)
             /\ pc' = "done"
             /\ calls' = calls \o <<Call("open", 0, <<>>, <<>>, TRUE),
                                    Call("worksheet", 0, <<>>, <<>>, FALSE)>>
             /\ UNCHANGED <<wsExists, sheet>>
    /\ UNCHANGED <<peer, env, catalog, today, runs, endpoint, args, page, collected,
                   debug, requests, items_all, sheet0, lastRun>>

ExportClear ==
    /\ pc = "export_clear"
    /\ \E ok \in BOOLEAN :
        /\ calls' = Append(calls, Call("clear", 0, <<>>, <<>>, ok))
        /\ IF ok
           THEN /\ sheet' = ws_clear(sheet)
                /\ pc' = "export_write"
                /\ UNCHANGED response
           ELSE /\ response' = SheetsAccessError /\ pc' = "done"
                /\ UNCHANGED sheet
    /\ UNCHANGED <<peer, env, catalog, today, wsExists, runs, endpoint, args, page,
                   collected, debug, requests, items_all, loc, sheet0, lastRun>>

ExportWrite ==
    /\ pc = "export_write"
    /\ \E ok \in BOOLEAN :
        LET all_rows == ExportRows(loc.prods)
        IN  /\ calls' = Append(calls, Call("update", 1, all_rows, loc.prods, ok))
            /\ IF ok
               THEN /\ sheet' = ws_update(sheet, 1, all_rows)
                    /\ response' = Json(200, "", [exported |-> Len(loc.prods)])
               ELSE /\ response' = SheetsAccessError
                    /\ UNCHANGED sheet
            /\ pc' = "done"
    /\ UNCHANGED <<peer, env, catalog, today, wsExists, runs, endpoint, args, page,
                   collected, debug, requests, items_all, loc, sheet0, lastRun>>

\* ---- the two sync endpoints: open the worksheet, reconcile the header

SyncOpen ==
    /\ pc = "fetched" /\ endpoint \in {"today", "updated"} /\ ~FetchFailed(items_all)
    /\ LET window == riga_today_start_end_utc(today)
       IN  loc' = [loc EXCEPT !.prods =
                      IF endpoint = "today" THEN TodayProducts(Fetched, window)
                      ELSE UpdatedProductsRaw(Fetched, window)]
    /\ \E ok \in BOOLEAN :
        IF ~env.google_sa
        THEN /\ response' = SheetsAccessError /\ pc' = "done"
             /\ UNCHANGED calls
        ELSE /\ calls' = Append(calls, Call("open", 0, <<>>, <<>>, ok /\ wsExists))
             /\ IF ok /\ wsExists
                THEN pc' = "header" /\ UNCHANGED response
                ELSE response' = SheetsAccessError /\ pc' = "done"
    /\ UNCHANGED <<peer, env, catalog, today, wsExists, sheet, runs, endpoint, args, page,
                   collected, debug, requests, items_all, sheet0, lastRun>>

SyncEnsureHeader ==
    /\ pc = "header"
    /\ \E ok \in BOOLEAN :
        LET eh == ensure_header(sheet)
        IN  IF ok
            THEN /\ sheet' = eh.sheet
                 /\ loc' = [loc EXCEPT !.headers = eh.headers]
                 /\ calls' = calls \o <<Call("row_values", 1, <<>>, <<>>, TRUE)>>
                        \o (IF eh.wrote
                            THEN <<Call("update", 1, <<eh.headers>>, <<>>, TRUE)>>
                            ELSE <<>>)
                 /\ pc' = "read"
                 /\ UNCHANGED response
            ELSE /\ calls' = Append(calls, Call("row_values", 1, <<>>, <<>>, FALSE))
                 /\ response' = SheetsAccessError /\ pc' = "done"
                 /\ UNCHANGED <<sheet, loc>>
    /\ UNCHANGED <<peer, env, catalog, today, wsExists, runs, endpoint, args, page,
                   collected, debug, requests, items_all, sheet0, lastRun>>

\* ---- /sync-today-products-to-sheet

RowsFor(prods, headers) == Map(prods, LAMBDA prod : Overlay(BlankRow(headers), headers, prod))

TodayReadCodes ==
    /\ pc = "read" /\ endpoint = "today"
    /\ \E ok \in BOOLEAN :
        LET existing_codes == read_existing_codes(sheet, CodeIdx(loc.headers))
            to_append == ToAppend(loc.prods, existing_codes)
        IN  /\ calls' = Append(calls, Call("col_values", 0, <<>>, <<>>, ok))
            /\ IF ~ok
               THEN /\ response' = SheetsAccessError /\ pc' = "done"
                    /\ UNCHANGED loc
               ELSE /\ loc' = [loc EXCEPT !.existing_codes = existing_codes,
                                          !.to_append = to_append]
                    /\ IF to_append # <<>>
                       THEN pc' = "first_empty" /\ UNCHANGED response
                       ELSE /\ response' = Json(200, "", [today |-> Len(loc.prods),
                                                          appended |-> 0])
                            /\ pc' = "done"
    /\ UNCHANGED <<peer, env, catalog, today, wsExists, sheet, runs, endpoint, args, page,
                   collected, debug, requests, items_all, sheet0, lastRun>>

TodayFirstEmptyRow ==
    /\ pc = "first_empty"
    /\ \E ok \in BOOLEAN :
        /\ calls' = Append(calls, Call("col_values", 0, <<>>, <<>>, ok))
        /\ IF ok
           THEN /\ loc' = [loc EXCEPT !.start_row = first_empty_row(sheet)]
                /\ pc' = "append"
                /\ UNCHANGED response
           ELSE /\ response' = SheetsAccessError /\ pc' = "done"
                /\ UNCHANGED loc
    /\ UNCHANGED <<peer, env, catalog, today, wsExists, sheet, runs, endpoint, args, page,
                   collected, debug, requests, items_all, sheet0, lastRun>>

TodayAppend ==
    /\ pc = "append"
    /\ \E ok \in BOOLEAN :
        LET rows == RowsFor(loc.to_append, loc.headers)
        IN  /\ calls' = Append(calls, Call("update", loc.start_row, rows,
                                           loc.to_append, ok))
            /\ IF ok
               THEN /\ sheet' = ws_update(sheet, loc.start_row, rows)
                    /\ response' = Json(200, "", [today |-> Len(loc.prods),
                                                  appended |-> Len(loc.to_append)])
               ELSE /\ response' = SheetsAccessError
                    /\ UNCHANGED sheet
            /\ pc' = "done"
    /\ UNCHANGED <<peer, env, catalog, today, wsExists, runs, endpoint, args, page,
                   collected, debug, requests, items_all, loc, sheet0, lastRun>>

\* ---- /sync-updated-products-to-sheet

UpdatedReadMap ==
    /\ pc = "read" /\ endpoint = "updated"
    /\ \E ok \in BOOLEAN :
        /\ calls' = Append(calls, Call("col_values", 0, <<>>, <<>>, ok))
        /\ IF ok
           THEN /\ loc' = [loc EXCEPT !.code_to_row =
                              read_code_to_row_map(sheet, CodeIdx(loc.headers))]
                /\ pc' = "loop"
                /\ UNCHANGED response
           ELSE /\ response' = SheetsAccessError /\ pc' = "done"
                /\ UNCHANGED loc
    /\ UNCHANGED <<peer, env, catalog, today, wsExists, sheet, runs, endpoint, args, page,
                   collected, debug, requests, items_all, sheet0, lastRun>>

\* what one pass of the loop does with a record: "nokey" (continue), "skip"
\* (not in the sheet) or "write"
\* variant of RowAction: a code missing from the sheet is passed over like an
\* empty code, without being counted
RowAction_SkipUncounted(code, code_to_row) ==
    IF code = Blank \/ code \notin DOMAIN code_to_row THEN "nokey" ELSE "write"

RowAction(code, code_to_row) ==
    IF code = Blank THEN "nokey"
    ELSE IF code \notin DOMAIN code_to_row THEN "skip"
    ELSE "write"

\* one pass of the loop over updated_products_raw
UpdatedRow ==
    /\ pc = "loop" /\ loc.i <= Len(loc.prods)
    /\ LET prod == normalize_product_full_for_sheet(loc.prods[loc.i])
           code == prod[S("Code")]
           act == RowAction(code, loc.code_to_row)
       IN  IF act = "nokey"
           THEN /\ loc' = [loc EXCEPT !.i = @ + 1]
                /\ UNCHANGED <<sheet, calls, response, pc>>
           ELSE IF act = "skip"
           THEN /\ loc' = [loc EXCEPT !.i = @ + 1, !.skipped_not_found = @ + 1]
                /\ UNCHANGED <<sheet, calls, response, pc>>
           ELSE \E ok \in BOOLEAN :
                LET row_idx == loc.code_to_row[code]
                    row_vals == Overlay(PadRow(row_values(sheet, row_idx), loc.headers),
                                        loc.headers, prod)
                IN  IF ok
                    THEN /\ sheet' = ws_update(sheet, row_idx, <<row_vals>>)
                         /\ calls' = calls \o
                                <<Call("row_values", row_idx, <<>>, <<>>, TRUE),
                                  Call("update", row_idx, <<row_vals>>, <<prod>>, TRUE)>>
                         /\ loc' = [loc EXCEPT !.i = @ + 1, !.updated_rows = @ + 1]
                         /\ UNCHANGED <<response, pc>>
                    ELSE /\ calls' = Append(calls,
                                Call("row_values", row_idx, <<>>, <<>>, FALSE))
                         /\ response' = Unhandled500
                         /\ pc' = "done"
                         /\ UNCHANGED <<sheet, loc>>
    /\ UNCHANGED <<peer, env, catalog, today, wsExists, runs, endpoint, args, page,
                   collected, debug, requests, items_all, sheet0, lastRun>>

UpdatedRespond ==
    /\ pc = "loop" /\ loc.i > Len(loc.prods)
    /\ response' = Json(200, "", [updated_today |-> Len(loc.prods),
                                  rows_updated |-> loc.updated_rows,
                                  skipped_not_found |-> loc.skipped_not_found])
    /\ pc' = "done"
    /\ UNCHANGED <<peer, env, catalog, today, wsExists, sheet, runs, endpoint, args, page,
                   collected, debug, requests, items_all, loc, calls, sheet0, lastRun>>

-----------------------------------------------------------------------------
(* The service: upstreams, worksheets and requests it is exercised with *)

ItemB2 == Raw(Some(S("3")), Some(S("C2")), Some(S("4")), Some(T_inside), Some(T_inside))
ItemNoId == Raw(None, Some(S("C3")), Some(S("1")), Some(T_inside), Some(T_inside))
ItemNoCode == Raw(Some(S("4")), Some(<<WS>>), Some(S("2")), Some(T_inside), Some(T_inside))
ItemOld == Raw(Some(S("5")), Some(S("C5")), Some(S("9")), Some(T_before), Some(T_before))
ItemEdited == Raw(Some(S("6")), Some(S("C6")), Some(S("8")), Some(T_before), Some(T_inside))
\* records stamped on the first and on the last instant of the day window
ItemAtStart == Raw(Some(S("7")), Some(S("C7")), Some(S("1")), Some(T_start), Some(T_start))
ItemAtEnd == Raw(Some(S("8")), Some(S("C8")), Some(S("1")), Some(T_end), Some(T_end))

OnePage(items) ==
    IF Len(items) = 1 THEN <<Up(200, XmlOne(items[1])), Up(200, XmlEmpty)>>
    ELSE <<Up(200, XmlList(items)), Up(200, XmlEmpty)>>

SyncPages ==
    {<<ItemA>>, <<ItemB>>, <<ItemNoId>>, <<ItemNoCode>>, <<ItemOld>>, <<ItemEdited>>,
     <<ItemA, ItemB>>, <<ItemB, ItemB2>>, <<ItemB, ItemA>>, <<ItemNoId, ItemB>>,
     <<ItemOld, ItemA>>, <<ItemEdited, ItemB>>, <<ItemAtStart, ItemAtEnd>>}

SyncCatalogs ==
    {OnePage(items) : items \in SyncPages}
    \cup {<<Up(200, XmlEmpty)>>,
          <<Up(200, XmlOne(ItemA)), Up(200, XmlOne(ItemB)), Up(200, XmlNoChild)>>,
          [k \in 1..MaxPages |-> Up(200, XmlOne(ItemA))],
          <<Up(401, XmlHtml)>>,
          <<Up(200, XmlOne(ItemB)), Up(500, XmlHtml)>>,
          <<Up(200, XmlOne(ItemA)), UpExc>>,
          <<Up(200, XmlMalformed)>>,
          <<Up(200, XmlOne(ItemA)), Up(200, XmlError)>>,
          <<Up(200, XmlText)>>}

\* worksheets the service is started on
RowStoredA == <<S("1"), S("C1"), S("5"), T_inside, T_before>>
RowStoredEdited == <<S("6"), S("C6"), S("8"), T_before, T_inside>>
RowNoItemID == <<Blank, S("C1"), S("5")>>

InitSheets ==
    {<<>>,
     <<PRODUCT_COLUMNS>>,
     <<PRODUCT_COLUMNS, RowStoredA>>,
     <<PRODUCT_COLUMNS, RowStoredA, RowStoredEdited>>,
     <<PRODUCT_COLUMNS, RowNoItemID>>,
     <<<<S("Code"), S("Note")>>, <<S("C1"), S("keep")>>, <<S("C6"), S("mine")>>>>,
     <<<<>>, <<S("x")>>>>,
     <<<<S("Note"), S("Code")>>, <<S("keep"), S("C1")>>, <<S("dup"), <<WS, "C1">>>>,
       <<S("mine"), S("C6")>>>>}

EnvConfigs ==
    {[paytraq |-> TRUE, google_sa |-> TRUE],
     [paytraq |-> FALSE, google_sa |-> TRUE],
     [paytraq |-> TRUE, google_sa |-> FALSE]}

Endpoints == {"export", "today", "updated"}

RequestArgs(ep) ==
    {[spreadsheet_id |-> TRUE, create |-> FALSE],
     [spreadsheet_id |-> FALSE, create |-> FALSE]}
    \cup (IF ep = "export" THEN {[spreadsheet_id |-> TRUE, create |-> TRUE]} ELSE {})

Init ==
    /\ env \in EnvConfigs
    /\ catalog \in SyncCatalogs
    /\ today \in Days
    /\ \/ wsExists = TRUE /\ sheet \in InitSheets
       \/ wsExists = FALSE /\ sheet = <<>>
    /\ runs = 0
    /\ pc = "idle"
    /\ endpoint = "none"
    /\ args = [spreadsheet_id |-> FALSE, create |-> FALSE]
    /\ page = 1
    /\ collected = <<>>
    /\ debug = <<>>
    /\ requests = <<>>
    /\ items_all = None
    /\ loc = NoLoc
    /\ calls = <<>>
    /\ sheet0 = sheet
    /\ response = NoResponse
    /\ lastRun = [endpoint |-> "none", response |-> NoResponse]
    /\ peer = NoPeer

Next ==
    \/ \E ep \in Endpoints : \E a \in RequestArgs(ep) : Start(ep, a)
    \/ FetchPage
    \/ RespondFetchFailed
    \/ RespondUnhandled
    \/ ExportOpen
    \/ ExportClear
    \/ ExportWrite
    \/ SyncOpen
    \/ SyncEnsureHeader
    \/ TodayReadCodes
    \/ TodayFirstEmptyRow
    \/ TodayAppend
    \/ UpdatedReadMap
    \/ UpdatedRow
    \/ UpdatedRespond

Spec == Init /\ [][Next]_vars

-----------------------------------------------------------------------------
(* Two /sync-today-products-to-sheet requests served at the same time on    *)
(* the same worksheet.  The first is served by the actions above; the       *)
(* second runs the same handler on its own locals, kept in peer.  Its fetch *)
(* touches nothing shared and is taken as one step.                         *)

mainVars == <<env, catalog, today, wsExists, runs, pc, endpoint, args, page,
              collected, debug, requests, items_all, loc, calls, sheet0,
              response, lastRun>>

\* the second request returns resp
PeerEnd(resp) == [peer EXCEPT !.pc = "done", !.response = resp, !.mainPcAtDone = pc]

PeerFetch ==
    /\ peer.pc = "fetch"
    /\ LET out == fetch_all_products(catalog)
           window == riga_today_start_end_utc(today)
       IN  peer' = IF out.ctl = "raise" THEN PeerEnd(Unhandled500)
                   ELSE IF FetchFailed(out.items)
                   THEN PeerEnd(Json(502, "Fetch failed", <<>>))
                   ELSE [peer EXCEPT !.pc = "open",
                                     !.prods = TodayProducts(OrElse(out.items, <<>>),
                                                             window)]
    /\ UNCHANGED <<mainVars, sheet>>

PeerOpen ==
    /\ peer.pc = "open"
    /\ \E ok \in BOOLEAN :
        peer' = IF env.google_sa /\ ok /\ wsExists
                THEN [peer EXCEPT !.pc = "header"]
                ELSE PeerEnd(SheetsAccessError)
    /\ UNCHANGED <<mainVars, sheet>>

PeerEnsureHeader ==
    /\ peer.pc = "header"
    /\ \E ok \in BOOLEAN :
        LET eh == ensure_header(sheet)
        IN  IF ok
            THEN /\ sheet' = eh.sheet
                 /\ peer' = [peer EXCEPT !.pc = "read", !.headers = eh.headers]
            ELSE /\ peer' = PeerEnd(SheetsAccessError)
                 /\ UNCHANGED sheet
    /\ UNCHANGED mainVars

PeerReadCodes ==
    /\ peer.pc = "read"
    /\ \E ok \in BOOLEAN :
        LET existing_codes == read_existing_codes(sheet, CodeIdx(peer.headers))
            to_append == ToAppend(peer.prods, existing_codes)
            read == [peer EXCEPT !.existing_codes = existing_codes,
                                 !.to_append = to_append,
                                 !.mainPcAtRead = pc]
        IN  peer' = IF ~ok THEN PeerEnd(SheetsAccessError)
                    ELSE IF to_append # <<>> THEN [read EXCEPT !.pc = "first_empty"]
                    ELSE [read EXCEPT !.pc = "done", !.mainPcAtDone = pc,
                                      !.response =
                                          Json(200, "", [today |-> Len(peer.prods),
                                                         appended |-> 0])]
    /\ UNCHANGED <<mainVars, sheet>>

PeerFirstEmptyRow ==
    /\ peer.pc = "first_empty"
    /\ \E ok \in BOOLEAN :
        peer' = IF ok
                THEN [peer EXCEPT !.pc = "append", !.start_row = first_empty_row(sheet)]
                ELSE PeerEnd(SheetsAccessError)
    /\ UNCHANGED <<mainVars, sheet>>

PeerAppend ==
    /\ peer.pc = "append"
    /\ \E ok \in BOOLEAN :
        IF ok
        THEN /\ sheet' = ws_update(sheet, peer.start_row,
                                   RowsFor(peer.to_append, peer.headers))
             /\ peer' = PeerEnd(Json(200, "", [today |-> Len(peer.prods),
                                               appended |-> Len(peer.to_append)]))
        ELSE /\ peer' = PeerEnd(SheetsAccessError)
             /\ UNCHANGED sheet
    /\ UNCHANGED mainVars

RaceCatalogs ==
    {OnePage(<<ItemB>>), OnePage(<<ItemA, ItemB>>), OnePage(<<ItemOld, ItemA>>),
     <<Up(401, XmlHtml)>>}

RaceSheets ==
    {<<>>, <<PRODUCT_COLUMNS>>, <<PRODUCT_COLUMNS, RowStoredA>>,
     <<PRODUCT_COLUMNS, RowNoItemID>>}

\* both requests have passed the parameter checks and are about to fetch
InitRace ==
    /\ env = [paytraq |-> TRUE, google_sa |-> TRUE]
    /\ catalog \in RaceCatalogs
    /\ today \in Days
    /\ wsExists = TRUE
    /\ sheet \in RaceSheets
    /\ runs = 1
    /\ pc = "fetch"
    /\ endpoint = "today"
    /\ args = [spreadsheet_id |-> TRUE, create |-> FALSE]
    /\ page = 1
    /\ collected = <<>>
    /\ debug = <<>>
    /\ requests = <<>>
    /\ items_all = None
    /\ loc = NoLoc
    /\ calls = <<>>
    /\ sheet0 = sheet
    /\ response = NoResponse
    /\ lastRun = [endpoint |-> "none", response |-> NoResponse]
    /\ peer = [NoPeer EXCEPT !.pc = "fetch"]

NextRace ==
    \/ FetchPage
    \/ RespondFetchFailed
    \/ SyncOpen
    \/ SyncEnsureHeader
    \/ TodayReadCodes
    \/ TodayFirstEmptyRow
    \/ TodayAppend
    \/ PeerFetch
    \/ PeerOpen
    \/ PeerEnsureHeader
    \/ PeerReadCodes
    \/ PeerFirstEmptyRow
    \/ PeerAppend

SpecRace == InitRace /\ [][NextRace]_vars

-----------------------------------------------------------------------------
(* Claims about the paginator, checked under SpecFetch *)

PageResp(cat, k) == paytraq_get(cat[k])
PageParse(cat, k) == parse_products_xml(PageResp(cat, k).text)
GoodPage(cat, k) ==
    /\ PageResp(cat, k).status < 400
    /\ PageParse(cat, k).out = "ok"
    /\ PageParse(cat, k).items # <<>>
EmptyPage(cat, k) ==
    /\ PageResp(cat, k).status < 400
    /\ PageParse(cat, k).out = "ok"
    /\ PageParse(cat, k).items = <<>>
FailPage(cat, k) ==
    \/ PageResp(cat, k).status >= 400
    \/ PageParse(cat, k).out = "ValueError"
GoodBefore(cat, k) == \A j \in 1..(k - 1) : GoodPage(cat, j)
RecordsUpTo(cat, n) == Concat([j \in 1..n |-> PageParse(cat, j).items])
OneTo(n) == [i \in 1..n |-> i]

\* C1: when the first empty page is page k (k <= max_pages, pages before it
\* good and non-empty), the call never raises, requests exactly pages 1..k and
\* returns success with exactly the records of pages 1..k-1 in page order.
C1_StopsAtFirstEmptyPage ==
    \A k \in 1..MaxPages :
        (GoodBefore(catalog, k) /\ EmptyPage(catalog, k)) =>
            /\ pc # "raised"
            /\ Len(requests) <= k
            /\ pc = "fetched" =>
                /\ requests = OneTo(k)
                /\ items_all = Some(RecordsUpTo(catalog, k - 1))

\* pages [2 items, 2 items, 0 items]: 4 records, 3 fetches
C1_Witness ==
    /\ pc = "fetched"
    /\ GoodBefore(catalog, 3) /\ EmptyPage(catalog, 3)
    /\ Len(PageParse(catalog, 1).items) = 2
    /\ Len(PageParse(catalog, 2).items) = 2
    /\ Len(requests) = 3
    /\ items_all # None /\ Len(OrElse(items_all, <<>>)) = 4

\* C2: when page k is the first failing page (401, another status >= 400
\* including the synthetic 599, or a body that raises ValueError in parsing),
\* the call returns failure (None) even if earlier pages were collected, page
\* k+1 is never requested, and the last diagnostic is the unauthorized marker
\* exactly when the status was 401.
C2_AbortsOnFailure ==
    \A k \in 1..MaxPages :
        (GoodBefore(catalog, k) /\ FailPage(catalog, k)) =>
            /\ pc # "raised"
            /\ Len(requests) <= k
            /\ pc = "fetched" =>
                /\ requests = OneTo(k)
                /\ items_all = None
                /\ debug # <<>>
                /\ debug[Len(debug)].tag \in {"Unauthorized", "HTTP", "PARSE_FAIL"}
                /\ (debug[Len(debug)].tag = "Unauthorized")
                       <=> (PageResp(catalog, k).status = 401)
                /\ (debug[Len(debug)].tag = "PARSE_FAIL")
                       <=> (PageResp(catalog, k).status < 400)

\* a 401 on page 2 after page 1 was collected
C2_Witness ==
    /\ pc = "fetched"
    /\ GoodPage(catalog, 1)
    /\ PageResp(catalog, 2).status = 401
    /\ collected # <<>>
    /\ items_all = None
    /\ debug[Len(debug)].tag = "Unauthorized"

C3_Sequential ==
    /\ requests = OneTo(Len(requests))
    /\ Len(requests) <= MaxPages
    /\ pc = "fetch" => page = Len(requests) + 1
    /\ (GoodBefore(catalog, MaxPages + 1) /\ pc = "fetched") =>
        /\ Len(requests) = MaxPages
        /\ items_all = Some(RecordsUpTo(catalog, MaxPages))

\* C3: the call always terminates (returns or raises); the pages requested
\* are 1, 2, 3, ... with none repeated or skipped; at most max_pages requests
\* are made; and when pages 1..max_pages are all non-empty the call stops
\* after exactly max_pages requests and returns every record as success.
C3_TerminatesSequentially ==
    /\ []C3_Sequential
    /\ [][pc = "fetch" => requests' = Append(requests, Len(requests) + 1)]_vars
    /\ <>(pc \in {"fetched", "raised"})

\* the ceiling is reached with every page non-empty
C3_Witness ==
    /\ pc = "fetched"
    /\ GoodBefore(catalog, MaxPages + 1)
    /\ Len(requests) = MaxPages
    /\ items_all # None

EndsOnEmptyPage(cat) ==
    \E k \in 1..MaxPages : GoodBefore(cat, k) /\ EmptyPage(cat, k)

\* C4: the value returned (records and diagnostic trail) by a call cut off at
\* the page ceiling differs from the value returned for every catalog that
\* ended normally on an empty page.
C4_CeilingDistinguishable ==
    (pc = "fetched" /\ GoodBefore(catalog, MaxPages + 1)) =>
        \A c \in FetchCatalogs :
            EndsOnEmptyPage(c) =>
                <<fetch_all_products(c).items, fetch_all_products(c).debug>>
                    # <<items_all, debug>>

-----------------------------------------------------------------------------
(* Claims about the endpoints, checked under Spec *)

\* the column holding the keys of worksheet sh (0 when its header has no Code)
KeyColumn(sh) ==
    IF S("Code") \in Range(row_values(sh, 1)) THEN CodeIdx(row_values(sh, 1)) ELSE 0
KeyAt(sh, r) == IF KeyColumn(sh) = 0 THEN Blank ELSE Strip(Cell(sh, r, KeyColumn(sh)))
DataRows(sh) == 2..Len(sh)
KeysOf(sh) == {KeyAt(sh, r) : r \in DataRows(sh)} \ {Blank}
KeysDistinct(sh) ==
    \A r1, r2 \in DataRows(sh) :
        (r1 # r2 /\ KeyAt(sh, r1) # Blank) => KeyAt(sh, r1) # KeyAt(sh, r2)
Succeeded(ep) == pc = "done" /\ endpoint = ep /\ response.status = 200
RowWrites == {i \in DOMAIN calls : calls[i].op = "update" /\ calls[i].ok /\ calls[i].row >= 2}
\* the record's row as stored in sh agrees with the record in every header column
StoredEquals(sh, headers, r, prod) ==
    \A c \in DOMAIN headers :
        headers[c] \in DOMAIN prod => Cell(sh, r, c) = prod[headers[c]]
UpdatedToday == Map(loc.prods, normalize_product_full_for_sheet)

\* C5: a second successful update-sync right after a successful one, with the
\* upstream and the day unchanged, writes no row (rows_updated = 0); and a run
\* in which every found record's stored row already equals the normalized
\* record in every column writes no row.
C5_UpdateSyncIdempotent ==
    /\ (Succeeded("updated") /\ lastRun.endpoint = "updated"
            /\ lastRun.response.status = 200)
        => (response.counts.rows_updated = 0 /\ RowWrites = {})
    /\ (Succeeded("updated")
            /\ \A i \in DOMAIN UpdatedToday :
                  UpdatedToday[i][S("Code")] \in DOMAIN loc.code_to_row =>
                      StoredEquals(sheet0, loc.headers,
                                   loc.code_to_row[UpdatedToday[i][S("Code")]],
                                   UpdatedToday[i]))
        => (response.counts.rows_updated = 0 /\ RowWrites = {})

\* C6: in update-sync every overwrite of a data row whose stored cells differ
\* from the values written is accompanied by a change-log entry, that is by a
\* successful write of this request outside the mirror worksheet.
C6_OverwriteIsLogged ==
    \A i \in RowWrites :
        (endpoint = "updated"
            /\ TrimTail(calls[i].vals[1]) # row_values(sheet0, calls[i].row))
        => \E j \in DOMAIN calls :
              calls[j].ok /\ calls[j].ws # "worksheet"
              /\ calls[j].op \in {"update", "append_rows", "append_row"}

KeyAbsent(prod) ==
    /\ prod[S("Code")] # Blank
    /\ \A r \in DataRows(sheet) :
          Strip(Cell(sheet, r, CodeIdx(loc.headers))) # prod[S("Code")]

\* C7: in update-sync a record updated today whose non-empty key is in no data
\* row of the key column is counted once in skipped_not_found and causes no
\* spreadsheet call and no change of the worksheet; the response reports the
\* number of such records.
C7_NotFoundIsSkipped ==
    /\ [][(pc = "loop" /\ loc.i <= Len(loc.prods)
             /\ KeyAbsent(normalize_product_full_for_sheet(loc.prods[loc.i])))
          => (/\ sheet' = sheet
              /\ calls' = calls
              /\ loc'.i = loc.i + 1
              /\ loc'.updated_rows = loc.updated_rows
              /\ loc'.skipped_not_found = loc.skipped_not_found + 1)]_vars
    /\ [](Succeeded("updated") =>
            /\ response.counts.skipped_not_found =
                  Cardinality({i \in DOMAIN UpdatedToday : KeyAbsent(UpdatedToday[i])})
            /\ \A i \in RowWrites : ~KeyAbsent(calls[i].recs[1]))

\* one record found and rewritten, another not in the sheet and skipped
C7_Witness ==
    /\ Succeeded("updated")
    /\ response.counts.skipped_not_found = 1
    /\ response.counts.rows_updated = 1
    /\ \E i \in DOMAIN UpdatedToday : KeyAbsent(UpdatedToday[i])

\* C8: after a successful create-sync on a worksheet whose data rows had
\* pairwise distinct non-blank keys, no two data rows share a key.
C8_KeysUniqueAfterCreateSync ==
    (Succeeded("today") /\ KeysDistinct(sheet0)
        /\ \A r \in DataRows(sheet0) : KeyAt(sheet0, r) # Blank)
    => KeysDistinct(sheet)

CreatedToday == loc.prods
Appended(prod) ==
    \E i \in RowWrites : \E k \in DOMAIN calls[i].recs : calls[i].recs[k] = prod

\* C9: after a successful create-sync, a record created today with a non-empty
\* key was appended exactly when its key was not in the key column when the
\* run began; the rows that held a present key are unchanged; and every record
\* created today with a non-empty key has a row.
C9_AppendIffAbsent ==
    Succeeded("today") =>
        \A n \in DOMAIN CreatedToday :
            LET prod == CreatedToday[n]
                code == prod[S("Code")]
            IN  code # Blank =>
                  /\ Appended(prod) <=> code \notin KeysOf(sheet0)
                  /\ \A r \in DataRows(sheet0) :
                        KeyAt(sheet0, r) = code =>
                            row_values(sheet, r) = row_values(sheet0, r)
                  /\ code \in KeysOf(sheet)

\* C10: no successful write of any endpoint carries a row built from a record
\* whose normalized ItemID or Code is empty.
C10_NoRowWithoutKey ==
    \A i \in DOMAIN calls :
        (calls[i].op = "update" /\ calls[i].ok) =>
            \A k \in DOMAIN calls[i].recs :
                /\ calls[i].recs[k][S("ItemID")] # Blank
                /\ calls[i].recs[k][S("Code")] # Blank

\* the window of civil day d, and the day after d
WindowOf(d) == riga_today_start_end_utc(d)
NextDay(d) == IF d = "2025-06-10" THEN "2025-06-11" ELSE d
SelectedStamps ==
    IF endpoint = "today" THEN {loc.prods[i][S("CreatedUTC")] : i \in DOMAIN loc.prods}
    ELSE {UpdatedOf(loc.prods[i]) : i \in DOMAIN loc.prods}
FetchedStamps ==
    IF endpoint = "today" THEN {CreatedOf(Fetched[i]) : i \in DOMAIN Fetched}
    ELSE {UpdatedOf(Fetched[i]) : i \in DOMAIN Fetched}

\* C11: in a successful create-sync or update-sync a fetched record stamped
\* exactly on the window's end instant is not selected and one stamped exactly
\* on the start instant is; and no selected stamp is also inside the window of
\* the following day.
C11_WindowHalfOpen ==
    (Succeeded("today") \/ Succeeded("updated")) =>
        /\ WindowOf(today)[2] \notin SelectedStamps
        /\ WindowOf(today)[1] \in FetchedStamps => WindowOf(today)[1] \in SelectedStamps
        /\ \A t \in SelectedStamps : ~InWindow(t, WindowOf(NextDay(today)))

\* what ensure_header must have made of worksheet sh0 when it leaves sh1
HeaderEstablished(sh0, sh1) ==
    LET h0 == row_values(sh0, 1)
        h1 == row_values(sh1, 1)
        absent(col) == col \notin Range(h0)
    IN  /\ Range(PRODUCT_COLUMNS) \subseteq Range(h1)
        /\ h0 = <<>> => h1 = PRODUCT_COLUMNS
        /\ h0 # <<>> => h1 = h0 \o SelectSeq(PRODUCT_COLUMNS, absent)
        /\ \A r \in 2..Max(Len(sh0), Len(sh1)) : row_values(sh1, r) = row_values(sh0, r)
HeaderWrites == {i \in DOMAIN calls : calls[i].op = "update" /\ calls[i].row = 1}

\* C12: a successful ensure_header leaves a header row holding every schema
\* column: an empty row 1 becomes the schema list, a non-empty row 1 is kept as
\* a prefix followed by the missing schema columns in schema order, rows 2
\* onward are unchanged, and the headers returned are the row written; a
\* second call, on the worksheet the first one left or in the sync request that
\* follows a successful sync, writes nothing.
C12_HeaderInvariant ==
    /\ [][(pc = "header" /\ pc' = "read") =>
            /\ HeaderEstablished(sheet, sheet')
            /\ loc'.headers = row_values(sheet', 1)
            /\ ~ensure_header(sheet').wrote
            /\ ensure_header(sheet').sheet = sheet']_vars
    /\ []((pc = "read" /\ lastRun.endpoint \in {"today", "updated"}
             /\ lastRun.response.status = 200) => HeaderWrites = {})

\* a header <<Code, Note>> extended by the four missing columns, rows kept
C12_Witness ==
    /\ pc = "read"
    /\ row_values(sheet0, 1) = <<S("Code"), S("Note")>>
    /\ row_values(sheet, 1) = <<S("Code"), S("Note"), S("ItemID"), S("Qty"),
                                S("CreatedUTC"), S("UpdatedUTC")>>
    /\ HeaderWrites # {}
    /\ Len(sheet) = 3 /\ Cell(sheet, 3, 2) = S("mine")

\* C13: after a successful create-sync every data row that held a non-blank
\* key when the run began is unchanged, whatever the layout of the worksheet
\* (key column first or not, column A blank in the last data rows or not).
C13_AppendBelowKeyColumn ==
    Succeeded("today") =>
        \A r \in DataRows(sheet0) :
            KeyAt(sheet0, r) # Blank => row_values(sheet, r) = row_values(sheet0, r)

\* update-sync, once the header is known: the key stored in row r when the run
\* began, the first row that held a key, and the rows the run is meant to write
Key0(r) == Strip(Cell(sheet0, r, CodeIdx(loc.headers)))
FirstRowOf(code) ==
    CHOOSE r \in DataRows(sheet0) :
        Key0(r) = code /\ \A q \in DataRows(sheet0) : Key0(q) = code => r <= q
FoundKeys ==
    {UpdatedToday[i][S("Code")] : i \in DOMAIN UpdatedToday}
        \cap ({Key0(r) : r \in DataRows(sheet0)} \ {Blank})
TargetRows == {FirstRowOf(code) : code \in FoundKeys}
IsField(c) == c <= Len(loc.headers) /\ loc.headers[c] \in Range(PRODUCT_COLUMNS)

\* C14: during and after an update-sync every write goes to the first data row
\* carrying the key of a found record; in such a row the cells outside the
\* schema columns keep their prior values; every other data row is unchanged;
\* and after a successful run each such row holds a found record's fields.
C14_UpdateFrame ==
    (endpoint = "updated" /\ loc.headers # <<>>) =>
        /\ \A i \in RowWrites : calls[i].row \in TargetRows
        /\ \A r \in 2..Max(Len(sheet0), Len(sheet)) :
              IF r \in TargetRows
              THEN \A c \in 1..Max(Len(row_values(sheet0, r)), Len(row_values(sheet, r))) :
                      ~IsField(c) => Cell(sheet, r, c) = Cell(sheet0, r, c)
              ELSE row_values(sheet, r) = row_values(sheet0, r)
        /\ Succeeded("updated") =>
              \A r \in TargetRows :
                  \E i \in DOMAIN UpdatedToday :
                      /\ UpdatedToday[i][S("Code")] = Key0(r)
                      /\ StoredEquals(sheet, loc.headers, r, UpdatedToday[i])

\* key C1 held by rows 2 and 3 under a header <<Note, Code>>: row 2 rewritten
\* with its note kept, row 3 untouched
C14_Witness ==
    /\ Succeeded("updated")
    /\ row_values(sheet0, 1) = <<S("Note"), S("Code")>>
    /\ TargetRows = {2}
    /\ Key0(3) = S("C1")
    /\ row_values(sheet, 2) = <<S("keep"), S("C1"), S("1"), S("7"), T_inside, T_inside>>
    /\ row_values(sheet, 3) = <<S("dup"), <<WS, "C1">>>>

\* C15: after a successful export the worksheet is exactly the schema header
\* followed by the normalized rows of the fetched records in fetch order, with
\* no other row and no other cell.
C15_ExportOverwrites ==
    Succeeded("export") =>
        LET n == Len(Fetched)
        IN  /\ row_values(sheet, 1) = PRODUCT_COLUMNS
            /\ Len(sheet) <= n + 1
            /\ \A i \in 1..n :
                  /\ Len(row_values(sheet, i + 1)) <= Len(PRODUCT_COLUMNS)
                  /\ \A c \in DOMAIN PRODUCT_COLUMNS :
                        Cell(sheet, i + 1, c) =
                            normalize_product_full_for_sheet(Fetched[i])[PRODUCT_COLUMNS[c]]

\* one record exported over a worksheet that held a custom header and three
\* data rows
C15_Witness ==
    /\ Succeeded("export")
    /\ row_values(sheet0, 1) = <<S("Note"), S("Code")>> /\ Len(sheet0) = 4
    /\ Len(Fetched) = 1
    /\ Len(sheet) = 2
    /\ response.counts.exported = 1

\* the upstream's answer for page k and what parsing makes of it
RespAt(k) == paytraq_get(Response(catalog, k))
ParseAt(k) == parse_products_xml(RespAt(k).text)
FailsAt(k) ==
    /\ \A j \in 1..(k - 1) :
          RespAt(j).status < 400 /\ ParseAt(j).out = "ok" /\ ParseAt(j).items # <<>>
    /\ RespAt(k).status >= 400 \/ ParseAt(k).out = "ValueError"
CatalogFetchFails == \E k \in 1..MaxPages : FailsAt(k)
Admitted == endpoint \in Endpoints /\ env.paytraq /\ args.spreadsheet_id

\* C16: when some page of the catalog answers 401, another status >= 400, or
\* a body that does not parse or has no Products node (earlier pages being
\* good), a request of any of the three endpoints issues no spreadsheet call,
\* leaves the worksheet as it was, and is answered 502 "Fetch failed".
C16_FetchFailureTouchesNothing ==
    (CatalogFetchFails /\ Admitted) =>
        /\ calls = <<>>
        /\ sheet = sheet0
        /\ pc = "done" => (response.status = 502 /\ response.error = "Fetch failed")

\* update-sync answered 502 after page 1 was collected and page 2 carried an
\* Error node, on a worksheet holding data
C16_Witness ==
    /\ pc = "done" /\ endpoint = "updated"
    /\ response.status = 502
    /\ FailsAt(2)
    /\ collected # <<>>
    /\ Len(sheet0) >= 2
    /\ debug[Len(debug)].tag = "PARSE_FAIL"

FailedCalls == {i \in DOMAIN calls : ~calls[i].ok}

\* C17: a request in which a spreadsheet call failed (opening the spreadsheet,
\* finding the worksheet when it is not to be created, reading the header or
\* the key column, reading or writing a row in the update-sync loop) is
\* answered with the one spreadsheet-access error response, status 500.
C17_OneOpaqueSheetError ==
    (pc = "done" /\ FailedCalls # {}) => response = SheetsAccessError

\* C18: a request of any of the three endpoints served while GOOGLE_SA_JSON
\* is empty (catalog credentials and spreadsheet_id being present) is answered
\* 400.
C18_MissingSheetCredentialsIs400 ==
    (pc = "done" /\ Admitted /\ ~env.google_sa) => response.status = 400

\* C20: when an export request has ended, with whatever response, the
\* worksheet holds either exactly what it held when the request began or
\* exactly the complete export of the fetched records.
C20_ExportAllOrNothing ==
    (pc = "done" /\ endpoint = "export") =>
        \/ sheet = sheet0
        \/ sheet = ws_update(<<>>, 1, ExportRows(Map(Fetched, normalize_product_full_for_sheet)))

-----------------------------------------------------------------------------
(* Claims about concurrent requests, checked under SpecRace *)

BothSucceeded == Succeeded("today") /\ peer.pc = "done" /\ peer.response.status = 200
\* one request read the key column only after the other had returned
Serial ==
    \/ peer.mainPcAtRead = "done"
    \/ peer.mainPcAtDone \in {"fetch", "fetched", "header", "read"}
BatchKeysDistinct(prods) ==
    \A i, j \in DOMAIN prods :
        (i # j /\ prods[i][S("Code")] # Blank) => prods[i][S("Code")] # prods[j][S("Code")]
CleanStart ==
    /\ KeysDistinct(sheet0)
    /\ \A r \in DataRows(sheet0) : KeyAt(sheet0, r) # Blank
    /\ BatchKeysDistinct(loc.prods) /\ BatchKeysDistinct(peer.prods)
SameRowsWritten ==
    /\ loc.to_append # <<>> /\ peer.to_append # <<>>
    /\ loc.start_row = peer.start_row

\* C19: two create-sync requests of which one read the key column only after
\* the other had returned leave no key in two rows (the worksheet and each
\* batch having distinct keys to begin with); the duplicate key or the
\* overwritten rows of the witness need the two requests to overlap.
C19_SerialRunsKeepKeysUnique ==
    (BothSucceeded /\ CleanStart /\ Serial) => KeysDistinct(sheet)

\* both requests succeeded, they overlapped, and either a key is in two rows
\* or both wrote their rows at the same place
C19_Witness ==
    /\ BothSucceeded /\ CleanStart /\ ~Serial
    /\ peer.mainPcAtRead \in {"read", "first_empty", "append"}
    /\ ~KeysDistinct(sheet) \/ SameRowsWritten

====
